---- MODULE Spec2Model ----
(***************************************************************************)
(* Model of final.py, the File Operations Tool: the loaders (read_csv,     *)
(* read_excel, load_excel_sheet), the merger (validate_columns,            *)
(* append_files), the aggregator (summarize_csv_files) and the Streamlit   *)
(* script that drives them (one action per script run).                    *)
(*                                                                         *)
(* Three specifications share the operators:                               *)
(*   SpecAppend  append_files applied to bounded file lists (cold caches)  *)
(*   SpecSum     summarize_csv_files applied to bounded tables and calls   *)
(*   Spec        the Streamlit session: uploads, reruns, st.cache_data,    *)
(*               st.session_state                                          *)
(***************************************************************************)
EXTENDS Integers, Sequences, FiniteSets, TLC

VARIABLES
    disk,             \* temp_uploaded_files: path -> bytes last written there
    file_paths,       \* SpecAppend: the file_paths argument being assembled
    selected_sheets,  \* SpecAppend: the selected_sheets argument (name -> sheet)
    appendOut,        \* SpecAppend: what the last append_files call returned/showed
    sum_df,           \* SpecSum: the table handed to summarize_csv_files
    sumOut,           \* SpecSum: the last summarize_csv_files call and its outcome
    operation,        \* Spec: the "Choose an operation" radio
    uploaded_files,   \* Spec: the Append page's file uploader, [name, bytes, pick]
    output_filename,  \* Spec: the output file name text input
    use_combined_file,\* Spec: widget state of the radio keyed "use_combined_file"
    sum_file,         \* Spec: the Summarize page's file uploader
    session_state,    \* Spec: st.session_state
    csv_cache,        \* Spec: st.cache_data entries of read_csv, by path
    excel_cache,      \* Spec: st.cache_data entries of read_excel, by path
    append_cache,     \* Spec: st.cache_data entries of append_files, by arguments
    view,             \* Spec: what the last script run showed
    last_answer,      \* Spec: the user's latest answer to the radio
    runs              \* Spec: script runs so far

appendVars == <<file_paths, selected_sheets, appendOut>>
sumVars == <<sum_df, sumOut>>
sessionVars == <<operation, uploaded_files, output_filename, use_combined_file,
                 sum_file, session_state, csv_cache, excel_cache, append_cache,
                 view, last_answer, runs>>
vars == <<disk, appendVars, sumVars, sessionVars>>

(***************************************************************************)
(* Bounds                                                                  *)
(***************************************************************************)
MaxFiles == 2         \* files handed to one append_files call
MaxRows == 2          \* rows of one uploaded table
MaxSumRows == 3       \* rows of a table handed to summarize_csv_files
MaxUploads == 2       \* files held by the Append page's uploader
MaxRuns == 6          \* script runs of one session

(***************************************************************************)
(* Tables.  A DataFrame is [cols, rows]: cols the column names in order,   *)
(* rows the rows in order, each row the cells in column order.  Null is a  *)
(* missing cell (NaN); None is Python's None.                              *)
(***************************************************************************)
Null == -1
None == [none |-> TRUE]

ColumnSet(df) == {df.cols[j] : j \in 1..Len(df.cols)}
ColIndex(df, c) == CHOOSE j \in 1..Len(df.cols) : df.cols[j] = c
Cell(df, r, c) == df.rows[r][ColIndex(df, c)]

\* The source records uploaded tables are cut from, and the headers they
\* are cut to: two orders of one column set, and a different column set.
Records == {[A |-> 1, B |-> 2, C |-> 3], [A |-> 2, B |-> 1, C |-> 3]}
Headers == {<<"A", "B">>, <<"B", "A">>, <<"A", "C">>}
Project(rec, cols) == [j \in 1..Len(cols) |-> rec[cols[j]]]
RowSeqs(n) == UNION {[1..k -> Records] : k \in 0..n}
Frames(n) ==
    {[cols |-> h, rows |-> [i \in 1..Len(rs) |-> Project(rs[i], h)]] :
        h \in Headers, rs \in RowSeqs(n)}

(***************************************************************************)
(* File bytes.  A file is CSV text holding a table, a workbook holding     *)
(* named sheets in file order, or bytes no parser accepts.                 *)
(***************************************************************************)
CsvBytes(df) == [fmt |-> "csv", df |-> df]
XlsxBytes(sheets) == [fmt |-> "xlsx", sheets |-> sheets]
Corrupt == [fmt |-> "corrupt"]

\* A sheet holds one row under any of the headers.
SheetFrames ==
    {[cols |-> h, rows |-> <<Project([A |-> 1, B |-> 2, C |-> 3], h)>>] : h \in Headers}
Sheet(n, df) == [name |-> n, df |-> df]
Workbooks ==
    {XlsxBytes(<<Sheet("S1", t)>>) : t \in SheetFrames}
    \cup {XlsxBytes(<<Sheet("S1", t), Sheet("S2", u)>>) :
            t \in {f \in SheetFrames : f.cols = <<"A", "B">>},
            u \in {f \in SheetFrames : f.cols = <<"A", "C">>}}

temp_folder == "temp_uploaded_files"
join(folder, name) == <<folder, name>>
basename(path) == path[2]
IsExcel(name) == name.ext \in {"xlsx", "xls"}

EmptyMap == [k \in {} |-> None]
Put(m, k, v) == [x \in DOMAIN m \cup {k} |-> IF x = k THEN v ELSE m[x]]

(***************************************************************************)
(* Loaders.  Each returns [ret, err]: the value returned and the st.error  *)
(* messages shown.  The *_body operators are the function bodies; the      *)
(* operators taking a cache are the @st.cache_data wrappers, which return  *)
(* the stored result (value and replayed messages) when the argument was   *)
(* seen before.                                                            *)
(***************************************************************************)
ErrCsv == "Error reading CSV file"
ErrExcel == "Error reading Excel file"
ErrSheet == "Error reading sheet"
ErrNoData == "No valid data frames to combine."
ErrMismatch == "Column mismatch detected. Ensure all files have the same columns."

read_csv_body(d, path) ==
    IF path \in DOMAIN d /\ d[path].fmt = "csv"
    THEN [ret |-> d[path].df, err |-> <<>>]
    ELSE [ret |-> None, err |-> <<ErrCsv>>]

read_csv(cache, d, path) ==
    IF path \in DOMAIN cache THEN cache[path] ELSE read_csv_body(d, path)

SheetNames(bytes) == [i \in 1..Len(bytes.sheets) |-> bytes.sheets[i].name]

read_excel_body(d, path) ==
    IF path \in DOMAIN d /\ d[path].fmt = "xlsx"
    THEN [ret |-> SheetNames(d[path]), err |-> <<>>]
    ELSE [ret |-> None, err |-> <<ErrExcel>>]

read_excel(cache, d, path) ==
    IF path \in DOMAIN cache THEN cache[path] ELSE read_excel_body(d, path)

load_excel_sheet(d, path, sheet_name) ==
    IF /\ path \in DOMAIN d
       /\ d[path].fmt = "xlsx"
       /\ \E i \in 1..Len(d[path].sheets) : d[path].sheets[i].name = sheet_name
    THEN LET i == CHOOSE i \in 1..Len(d[path].sheets) :
                      d[path].sheets[i].name = sheet_name
         IN [ret |-> d[path].sheets[i].df, err |-> <<>>]
    ELSE [ret |-> None, err |-> <<ErrSheet>>]

(***************************************************************************)
(* Merger                                                                  *)
(***************************************************************************)
\* Faulty variant: compares the column lists, so column order matters.
validate_columns_ordered(dfs) ==
    IF dfs = <<>> THEN FALSE
    ELSE \A i \in 1..Len(dfs) : dfs[i].cols = dfs[1].cols

validate_columns(dfs) ==
    IF dfs = <<>> THEN FALSE
    ELSE \A i \in 1..Len(dfs) : ColumnSet(dfs[i]) = ColumnSet(dfs[1])

\* pd.concat(axis=0): the columns are the union in first-seen order; each
\* row is re-aligned by column NAME, a column the row's table lacks is Null.
RECURSIVE UnionCols(_)
UnionCols(dfs) ==
    IF dfs = <<>> THEN <<>>
    ELSE LET before == UnionCols(SubSeq(dfs, 1, Len(dfs) - 1))
             last == dfs[Len(dfs)]
         IN before \o SelectSeq(last.cols,
                LAMBDA c : \A j \in 1..Len(before) : before[j] # c)

Realign(df, cols) ==
    [r \in 1..Len(df.rows) |->
        [j \in 1..Len(cols) |->
            IF cols[j] \in ColumnSet(df) THEN Cell(df, r, cols[j]) ELSE Null]]

RECURSIVE ConcatRows(_, _)
ConcatRows(dfs, cols) ==
    IF dfs = <<>> THEN <<>>
    ELSE Realign(Head(dfs), cols) \o ConcatRows(Tail(dfs), cols)

RECURSIVE StackRows(_)
StackRows(dfs) ==
    IF dfs = <<>> THEN <<>> ELSE Head(dfs).rows \o StackRows(Tail(dfs))

\* Faulty variant: stacks the rows by column POSITION under the first table's header.
pd_concat_positional(dfs) == [cols |-> dfs[1].cols, rows |-> StackRows(dfs)]

pd_concat(dfs) ==
    LET cols == UnionCols(dfs) IN [cols |-> cols, rows |-> ConcatRows(dfs, cols)]

\* append_files, lines 55-65: one pass of the loading loop over file_path.
\* selected_sheets.get() gives None for a missing key; None and "" are both
\* falsy at `if sheet_name:`, so the missing key is modelled as "".
load_step(acc, cc, d, file_path, sheets) ==
    IF IsExcel(basename(file_path))
    THEN LET sheet_name == IF basename(file_path) \in DOMAIN sheets
                           THEN sheets[basename(file_path)] ELSE ""
         IN IF sheet_name # ""
            THEN LET r == load_excel_sheet(d, file_path, sheet_name)
                 IN [dfs |-> IF r.ret # None THEN Append(acc.dfs, r.ret) ELSE acc.dfs,
                     msgs |-> acc.msgs \o r.err]
            ELSE acc
    ELSE LET r == read_csv(cc, d, file_path)
         IN [dfs |-> IF r.ret # None THEN Append(acc.dfs, r.ret) ELSE acc.dfs,
             msgs |-> acc.msgs \o r.err]

\* Faulty variant: the first input that fails to load ends the loop.
RECURSIVE load_loop_break(_, _, _, _)
load_loop_break(cc, d, paths, sheets) ==
    IF paths = <<>> THEN [dfs |-> <<>>, msgs |-> <<>>]
    ELSE LET before == load_loop_break(cc, d, SubSeq(paths, 1, Len(paths) - 1), sheets)
             after == load_step(before, cc, d, paths[Len(paths)], sheets)
         IN IF Len(before.dfs) < Len(paths) - 1 THEN before ELSE after

RECURSIVE load_loop(_, _, _, _)
load_loop(cc, d, paths, sheets) ==
    IF paths = <<>> THEN [dfs |-> <<>>, msgs |-> <<>>]
    ELSE load_step(load_loop(cc, d, SubSeq(paths, 1, Len(paths) - 1), sheets),
                   cc, d, paths[Len(paths)], sheets)

\* Faulty variant: no `if not dfs` test before the column validation.
combine_unguarded(dfs) ==
    IF validate_columns(dfs)
    THEN [df |-> pd_concat(dfs), msgs |-> <<>>]
    ELSE [df |-> None, msgs |-> <<ErrMismatch>>]

\* append_files, lines 67-75.
combine(dfs) ==
    IF dfs = <<>>
    THEN [df |-> None, msgs |-> <<ErrNoData>>]
    ELSE IF validate_columns(dfs)
         THEN [df |-> pd_concat(dfs), msgs |-> <<>>]
         ELSE [df |-> None, msgs |-> <<ErrMismatch>>]

\* The body of append_files: [df, msgs], msgs the st.error calls in order.
append_files_body(cc, d, paths, sheets) ==
    LET loaded == load_loop(cc, d, paths, sheets)
        out == combine(loaded.dfs)
    IN [df |-> out.df, msgs |-> loaded.msgs \o out.msgs]

(***************************************************************************)
(* Aggregator.  An aggregate is a rational <<numerator, denominator>>      *)
(* (not reduced); NaN is the aggregate of no values.                       *)
(***************************************************************************)
NaN == <<0, 0>>
EmptyFrame == [cols |-> <<>>, rows |-> <<>>]
ErrSummarize == "Error during summarization"
operation_map ==
    [Min |-> "min", Max |-> "max", Sum |-> "sum", Count |-> "count",
     Mean |-> "mean", Median |-> "median", Std |-> "std"]

RECURSIVE SeqSum(_)
SeqSum(xs) == IF xs = <<>> THEN 0 ELSE Head(xs) + SeqSum(Tail(xs))
SeqSquares(xs) == [i \in 1..Len(xs) |-> xs[i] * xs[i]]
SeqMin(xs) == CHOOSE m \in {xs[i] : i \in 1..Len(xs)} : \A i \in 1..Len(xs) : m <= xs[i]
SeqMax(xs) == CHOOSE m \in {xs[i] : i \in 1..Len(xs)} : \A i \in 1..Len(xs) : m >= xs[i]
\* The k-th smallest element of xs (ties counted by position).
Ranked(xs, k) ==
    LET Before(i, j) == xs[i] < xs[j] \/ (xs[i] = xs[j] /\ i < j)
        i == CHOOSE i \in 1..Len(xs) :
                 Cardinality({j \in 1..Len(xs) : Before(j, i)}) = k - 1
    IN xs[i]

\* The pandas group reductions over the non-null values xs of one column
\* within one group.  "std" is given by its square, the sample variance.
Aggregate(how, xs) ==
    LET n == Len(xs) IN
    CASE how = "count" -> <<n, 1>>
      [] how = "sum" -> <<SeqSum(xs), 1>>
      [] how = "min" -> IF n = 0 THEN NaN ELSE <<SeqMin(xs), 1>>
      [] how = "max" -> IF n = 0 THEN NaN ELSE <<SeqMax(xs), 1>>
      [] how = "mean" -> IF n = 0 THEN NaN ELSE <<SeqSum(xs), n>>
      [] how = "median" ->
            IF n = 0 THEN NaN
            ELSE IF n % 2 = 1 THEN <<Ranked(xs, (n + 1) \div 2), 1>>
            ELSE <<Ranked(xs, n \div 2) + Ranked(xs, n \div 2 + 1), 2>>
      [] how = "std" ->
            IF n < 2 THEN NaN
            ELSE <<n * SeqSum(SeqSquares(xs)) - SeqSum(xs) * SeqSum(xs), n * (n - 1)>>

\* The group key of row r, and the groups df.groupby(by) forms: a row with
\* a Null in any key column belongs to no group (dropna defaults to True).
KeyOf(df, by, r) == [j \in 1..Len(by) |-> Cell(df, r, by[j])]
HasNull(key) == \E j \in 1..Len(key) : key[j] = Null
GroupKeys(df, by) ==
    {KeyOf(df, by, r) : r \in {q \in 1..Len(df.rows) : ~HasNull(KeyOf(df, by, q))}}
\* The rows of one group, in source order.
Members(df, by, key) ==
    SelectSeq([r \in 1..Len(df.rows) |-> r], LAMBDA r : KeyOf(df, by, r) = key)

LexLess(a, b) ==
    \E j \in 1..Len(a) : a[j] < b[j] /\ \A i \in 1..(j - 1) : a[i] = b[i]
\* groupby sorts the groups by key (sort defaults to True).
RECURSIVE SortKeys(_)
SortKeys(S) ==
    IF S = {} THEN <<>>
    ELSE LET least == CHOOSE k \in S : \A o \in S \ {k} : LexLess(k, o)
         IN <<least>> \o SortKeys(S \ {least})

NonNull(df, rs, c) ==
    LET vals == [i \in 1..Len(rs) |-> Cell(df, rs[i], c)]
    IN SelectSeq(vals, LAMBDA v : v # Null)

\* GroupBy 'first': the first non-null value of the column in the group.
First(df, rs, c) ==
    LET vals == NonNull(df, rs, c) IN IF vals = <<>> THEN Null ELSE vals[1]

Missing(df, names) == {names[j] : j \in 1..Len(names)} \ ColumnSet(df)

\* Lines 102-105: the columns aggregated with 'first', in table order.
PassThrough(df, selected_columns, group_by_columns) ==
    SelectSeq(df.cols, LAMBDA c :
        /\ \A j \in 1..Len(selected_columns) : selected_columns[j] # c
        /\ \A j \in 1..Len(group_by_columns) : group_by_columns[j] # c)

\* The grouped frame of lines 107 and 110 (as_index=False): the key
\* columns, the aggregate of each selected column, then the 'first' columns.
Grouped(df, how, selected_columns, group_by_columns, firsts) ==
    LET keys == SortKeys(GroupKeys(df, group_by_columns))
        RowFor(key) ==
            LET rs == Members(df, group_by_columns, key)
            IN key
               \o [j \in 1..Len(selected_columns) |->
                      Aggregate(how, NonNull(df, rs, selected_columns[j]))]
               \o [j \in 1..Len(firsts) |-> First(df, rs, firsts[j])]
    IN [cols |-> group_by_columns \o selected_columns \o firsts,
        rows |-> [k \in 1..Len(keys) |-> RowFor(keys[k])]]

\* summarize_csv_files: [ret, err, exc].  Every exception ends in the one
\* handler of lines 113-115: the same st.error label, an empty DataFrame;
\* exc is the exception the label is followed by.
summarize_csv_files(df, operation_, selected_columns, group_by_columns, include_all_columns) ==
    LET Failed(exc) == [ret |-> EmptyFrame, err |-> <<ErrSummarize>>, exc |-> exc]
    IN IF operation_ \notin DOMAIN operation_map
       THEN Failed("KeyError")
       ELSE IF group_by_columns = <<>>
       THEN Failed("ValueError: No group keys passed!")
       ELSE IF Missing(df, group_by_columns) # {} \/ Missing(df, selected_columns) # {}
       THEN Failed("KeyError")
       ELSE [ret |-> Grouped(df, operation_map[operation_], selected_columns,
                             group_by_columns,
                             IF include_all_columns
                             THEN PassThrough(df, selected_columns, group_by_columns)
                             ELSE <<>>),
             err |-> <<>>,
             exc |-> ""]

(***************************************************************************)
(* The Streamlit script.  Every user interaction reruns the whole script   *)
(* with the widgets' current values; a button is True only in the run its  *)
(* click triggers; a widget that a run does not render loses its state.    *)
(* st.cache_data entries and the temp folder outlive the runs.             *)
(***************************************************************************)
Unset == [unset |-> TRUE]
NoFile == [nofile |-> TRUE]
ErrNoName == "Please provide an output file name."
DefaultOutput == [stem |-> "combined_file", ext |-> "csv"]
NoName == [stem |-> "", ext |-> ""]

BlankView(page) ==
    [page |-> page, exc |-> "", errors |-> <<>>, call |-> Unset,
     combined |-> Unset, radio_shown |-> FALSE, df_bound |-> FALSE,
     df |-> Unset, using_appended |-> FALSE, upload_offered |-> FALSE,
     options_shown |-> FALSE, summary |-> Unset, warning |-> FALSE]

Failed(r) == r.err # <<>>

\* Lines 153-177 for one uploaded file: the write to the temp folder, and
\* for a workbook the sheet choice and the preview.  preview_dataframe of a
\* sheet that failed to load raises (None has no head), ending the run.
upload_step(acc, file) ==
    IF acc.crashed THEN acc
    ELSE
    LET file_path == join(temp_folder, file.name)
        d == Put(acc.disk, file_path, file.bytes)
    IN IF IsExcel(file.name)
       THEN LET r == read_excel(acc.excel_cache, d, file_path)
                ec == Put(acc.excel_cache, file_path, r)
                sheet_names == r.ret
            IN IF ~Failed(r) /\ Len(sheet_names) >= 1
               THEN LET sheet_name ==
                            IF Len(sheet_names) > 1
                               /\ \E k \in 1..Len(sheet_names) : sheet_names[k] = file.pick
                            THEN file.pick ELSE sheet_names[1]
                        sheet_df == load_excel_sheet(d, file_path, sheet_name)
                    IN [disk |-> d, excel_cache |-> ec,
                        sheets |-> Put(acc.sheets, file.name, sheet_name),
                        errors |-> acc.errors \o r.err \o sheet_df.err,
                        crashed |-> sheet_df.ret = None]
               ELSE [disk |-> d, excel_cache |-> ec, sheets |-> acc.sheets,
                     errors |-> acc.errors \o r.err, crashed |-> FALSE]
       ELSE [disk |-> d, excel_cache |-> acc.excel_cache, sheets |-> acc.sheets,
             errors |-> acc.errors, crashed |-> FALSE]

RECURSIVE upload_loop(_, _)
upload_loop(acc, files) ==
    IF files = <<>> THEN acc
    ELSE upload_loop(upload_step(acc, Head(files)), Tail(files))

\* The read_csv entries a run of the body of append_files leaves cached.
RECURSIVE csv_cache_after(_, _, _)
csv_cache_after(cc, d, paths) ==
    IF paths = <<>> THEN cc
    ELSE LET p == Head(paths)
         IN csv_cache_after(
                IF IsExcel(basename(p)) THEN cc ELSE Put(cc, p, read_csv(cc, d, p)),
                d, Tail(paths))

\* st.cache_data keys append_files on its arguments only: the paths and
\* the sheet selection, not the bytes at the paths.
append_key(paths, sheets) == <<paths, sheets>>

\* Lines 145-212: one run of the "Append Files" page.  Gives the state the
\* run leaves: temp folder, caches, session state, radio state, the view.
AppendPageRun(files, button) ==
    LET start == [disk |-> disk, excel_cache |-> excel_cache, sheets |-> EmptyMap,
                  errors |-> <<>>, crashed |-> FALSE]
        up == upload_loop(start, files)
        same == [disk |-> up.disk, excel_cache |-> up.excel_cache,
                 csv_cache |-> csv_cache, append_cache |-> append_cache,
                 session_state |-> session_state, use_combined_file |-> "absent",
                 view |-> [BlankView("Append Files") EXCEPT !.errors = up.errors]]
    IN IF up.crashed
       THEN [same EXCEPT !.view.exc = "AttributeError"]
       ELSE IF files = <<>> \/ ~button
       THEN same
       ELSE IF output_filename = NoName
       THEN [same EXCEPT !.view.errors = @ \o <<ErrNoName>>]
       ELSE
       LET paths == [i \in 1..Len(files) |-> join(temp_folder, files[i].name)]
           key == append_key(paths, up.sheets)
           hit == key \in DOMAIN append_cache
           out == IF hit THEN append_cache[key]
                  ELSE append_files_body(csv_cache, up.disk, paths, up.sheets)
           cc == IF hit THEN csv_cache ELSE csv_cache_after(csv_cache, up.disk, paths)
           ac == Put(append_cache, key, out)
           called == [same EXCEPT !.csv_cache = cc, !.append_cache = ac,
                                  !.view.errors = @ \o out.msgs,
                                  !.view.call = [file_paths |-> paths,
                                                 selected_sheets |-> up.sheets],
                                  !.view.combined = out.df]
       IN IF out.df = None
          THEN called
          ELSE LET answer == IF use_combined_file = "absent" THEN "Yes"
                             ELSE use_combined_file
               IN [called EXCEPT
                     !.disk = Put(@, join(temp_folder, output_filename), CsvBytes(out.df)),
                     !.use_combined_file = answer,
                     !.view.radio_shown = TRUE,
                     !.session_state =
                         Put(@, "summarize_df", IF answer = "Yes" THEN out.df ELSE None)]

\* Lines 215-252: one run of the "Summarize Data" page up to the sidebar.
\* df is assigned at line 220 or at line 237, and nowhere else.
SummarizePageRun(file) ==
    LET same == [disk |-> disk, excel_cache |-> excel_cache, csv_cache |-> csv_cache,
                 view |-> BlankView("Summarize Data")]
    IN IF "summarize_df" \in DOMAIN session_state /\ session_state["summarize_df"] # None
       THEN [same EXCEPT !.view.df_bound = TRUE,
                         !.view.df = session_state["summarize_df"],
                         !.view.using_appended = TRUE,
                         !.view.options_shown = TRUE]
       ELSE IF file = NoFile
       THEN [same EXCEPT !.view.upload_offered = TRUE, !.view.exc = "NameError"]
       ELSE
       LET temp_path == join(temp_folder, file.name)
           d == Put(disk, temp_path, file.bytes)
           excel == IsExcel(file.name)
           r == read_excel(excel_cache, d, temp_path)
           ec == IF excel THEN Put(excel_cache, temp_path, r) ELSE excel_cache
           has_sheet == excel /\ ~Failed(r) /\ Len(r.ret) >= 1
           sheet_name == IF Len(r.ret) > 1 /\ \E k \in 1..Len(r.ret) : r.ret[k] = file.pick
                         THEN file.pick ELSE r.ret[1]
           loaded == IF has_sheet THEN load_excel_sheet(d, temp_path, sheet_name)
                     ELSE read_csv(csv_cache, d, temp_path)
           cc == IF has_sheet THEN csv_cache ELSE Put(csv_cache, temp_path, loaded)
       IN [disk |-> d, excel_cache |-> ec, csv_cache |-> cc,
           view |-> [BlankView("Summarize Data") EXCEPT
                        !.upload_offered = TRUE,
                        !.errors = (IF excel THEN r.err ELSE <<>>) \o loaded.err,
                        !.df_bound = TRUE,
                        !.df = loaded.ret,
                        !.options_shown = loaded.ret # None]]

\* DataFrame.empty: no rows or no columns.
IsEmptyFrame(df) == df.rows = <<>> \/ df.cols = <<>>

\* Lines 254-271: the "Summarize Data" button handler.
SummarizeClick(v, operation_, selected_columns, group_by_columns, include_all_columns) ==
    IF selected_columns # <<>> /\ group_by_columns # <<>>
    THEN LET out == summarize_csv_files(v.df, operation_, selected_columns,
                                        group_by_columns, include_all_columns)
         IN [v EXCEPT !.errors = @ \o out.err,
                      !.summary = IF IsEmptyFrame(out.ret) THEN Unset ELSE out.ret]
    ELSE [v EXCEPT !.warning = TRUE]

(***************************************************************************)
(* Inputs                                                                  *)
(***************************************************************************)
NotCalled == [called |-> FALSE]
NoCall == [called |-> FALSE, none |-> TRUE]
CsvContents == {CsvBytes(t) : t \in Frames(MaxRows)} \cup {Corrupt}
XlsxContents == Workbooks \cup {Corrupt}
SheetChoices == {"", "S1", "S2"}

SumCols == <<"g", "v", "x">>
SumRows == {<<g, v, x>> : g \in {Null, 1, 2}, v \in {Null, 1, 2}, x \in {Null, 1}}
Operations == DOMAIN operation_map
GroupChoices == {<<>>, <<"g">>, <<"x">>, <<"g", "x">>, <<"zz">>}
ValueChoices == {<<"v">>, <<"v", "x">>, <<"zz">>}
Overlap(a, b) == \E i \in 1..Len(a) : \E j \in 1..Len(b) : a[i] = b[j]

\* The files a session's user has at hand: a.csv in three versions, b.csv
\* with another column set, w.xlsx as a two-sheet workbook or unreadable.
TabOld == [cols |-> <<"A", "B">>, rows |-> <<<<1, 2>>>>]
TabNew == [cols |-> <<"B", "A">>, rows |-> <<<<1, 2>>, <<1, Null>>>>]
TabOther == [cols |-> <<"A", "C">>, rows |-> <<<<2, 3>>>>]
Book == XlsxBytes(<<Sheet("S1", TabOld), Sheet("S2", TabOther)>>)
NameA == [stem |-> "a", ext |-> "csv"]
NameB == [stem |-> "b", ext |-> "csv"]
NameW == [stem |-> "w", ext |-> "xlsx"]
Upload(name, bytes) == [name |-> name, bytes |-> bytes, pick |-> ""]
SessionUploads ==
    {Upload(NameA, b) : b \in {CsvBytes(TabOld), CsvBytes(TabNew), Corrupt}}
    \cup {Upload(NameB, CsvBytes(TabOther))}
    \cup {Upload(NameW, b) : b \in {Book, Corrupt}}

(***************************************************************************)
(* SpecAppend: a file list is staged on disk one file at a time, then      *)
(* append_files runs on it with nothing cached.                            *)
(***************************************************************************)
InitAppend ==
    /\ disk = EmptyMap
    /\ file_paths = <<>>
    /\ selected_sheets = EmptyMap
    /\ appendOut = NotCalled
    /\ sum_df = [cols |-> SumCols, rows |-> <<>>]
    /\ sumOut = NoCall
    /\ operation = "Append Files"
    /\ uploaded_files = <<>>
    /\ output_filename = DefaultOutput
    /\ use_combined_file = "absent"
    /\ sum_file = NoFile
    /\ session_state = EmptyMap
    /\ csv_cache = EmptyMap
    /\ excel_cache = EmptyMap
    /\ append_cache = EmptyMap
    /\ view = BlankView("Append Files")
    /\ last_answer = "none"
    /\ runs = 0

\* A CSV file is written to the temp folder and listed (lines 154-156, 181).
StageCsv ==
    /\ Len(file_paths) < MaxFiles
    /\ \E bytes \in CsvContents :
          LET name == [stem |-> Len(file_paths) + 1, ext |-> "csv"]
              path == join(temp_folder, name)
          IN /\ disk' = Put(disk, path, bytes)
             /\ file_paths' = Append(file_paths, path)
    /\ appendOut' = NotCalled
    /\ UNCHANGED <<selected_sheets, sumVars, sessionVars>>

\* A workbook is written and listed, with or without a selected sheet
\* (lines 154-156, 167, 174, 181).
StageXlsx ==
    /\ Len(file_paths) < MaxFiles
    /\ \E bytes \in XlsxContents, choice \in SheetChoices :
          LET name == [stem |-> Len(file_paths) + 1, ext |-> "xlsx"]
              path == join(temp_folder, name)
          IN /\ disk' = Put(disk, path, bytes)
             /\ file_paths' = Append(file_paths, path)
             /\ selected_sheets' =
                    IF choice = "" THEN selected_sheets
                    ELSE Put(selected_sheets, name, choice)
    /\ appendOut' = NotCalled
    /\ UNCHANGED <<sumVars, sessionVars>>

CallAppend ==
    /\ appendOut = NotCalled
    /\ LET out == append_files_body(EmptyMap, disk, file_paths, selected_sheets)
       IN appendOut' = [called |-> TRUE, df |-> out.df, msgs |-> out.msgs]
    /\ UNCHANGED <<disk, file_paths, selected_sheets, sumVars, sessionVars>>

NextAppend == StageCsv \/ StageXlsx \/ CallAppend

SpecAppend == InitAppend /\ [][NextAppend]_vars

(***************************************************************************)
(* SpecSum: a table is built row by row, then summarize_csv_files is       *)
(* called on it.  The value columns offered are the table's (numeric)      *)
(* columns, as at lines 243-249, or a name the table lacks; a column is    *)
(* not both grouped and aggregated.                                        *)
(***************************************************************************)
InitSum ==
    /\ disk = EmptyMap
    /\ file_paths = <<>>
    /\ selected_sheets = EmptyMap
    /\ appendOut = NotCalled
    /\ sum_df = [cols |-> SumCols, rows |-> <<>>]
    /\ sumOut = NoCall
    /\ operation = "Append Files"
    /\ uploaded_files = <<>>
    /\ output_filename = DefaultOutput
    /\ use_combined_file = "absent"
    /\ sum_file = NoFile
    /\ session_state = EmptyMap
    /\ csv_cache = EmptyMap
    /\ excel_cache = EmptyMap
    /\ append_cache = EmptyMap
    /\ view = BlankView("Append Files")
    /\ last_answer = "none"
    /\ runs = 0

AddRow ==
    /\ Len(sum_df.rows) < MaxSumRows
    /\ \E row \in SumRows : sum_df' = [sum_df EXCEPT !.rows = Append(@, row)]
    /\ sumOut' = NoCall
    /\ UNCHANGED <<disk, appendVars, sessionVars>>

CallSummarize ==
    /\ sumOut = NoCall
    /\ \E op \in Operations, sel \in ValueChoices, by \in GroupChoices, all \in BOOLEAN :
          /\ ~Overlap(sel, by)
          /\ LET out == summarize_csv_files(sum_df, op, sel, by, all)
             IN sumOut' = [called |-> TRUE, operation |-> op, selected_columns |-> sel,
                           group_by_columns |-> by, include_all_columns |-> all,
                           ret |-> out.ret, err |-> out.err, exc |-> out.exc]
    /\ UNCHANGED <<sum_df, disk, appendVars, sessionVars>>

NextSum == AddRow \/ CallSummarize

SpecSum == InitSum /\ [][NextSum]_vars

(***************************************************************************)
(* Spec: one Streamlit session.  Init is the state after the first run of  *)
(* the script; each action is one user interaction and the rerun it        *)
(* triggers.                                                               *)
(***************************************************************************)
Init ==
    /\ disk = EmptyMap
    /\ file_paths = <<>>
    /\ selected_sheets = EmptyMap
    /\ appendOut = NotCalled
    /\ sum_df = [cols |-> SumCols, rows |-> <<>>]
    /\ sumOut = NoCall
    /\ operation = "Append Files"
    /\ uploaded_files = <<>>
    /\ output_filename = DefaultOutput
    /\ use_combined_file = "absent"
    /\ sum_file = NoFile
    /\ session_state = EmptyMap
    /\ csv_cache = EmptyMap
    /\ excel_cache = EmptyMap
    /\ append_cache = EmptyMap
    /\ view = BlankView("Append Files")
    /\ last_answer = "none"
    /\ runs = 0

AfterAppendRun(run) ==
    /\ disk' = run.disk
    /\ excel_cache' = run.excel_cache
    /\ csv_cache' = run.csv_cache
    /\ append_cache' = run.append_cache
    /\ session_state' = run.session_state
    /\ use_combined_file' = run.use_combined_file
    /\ view' = run.view
    /\ sum_file' = NoFile
    /\ runs' = runs + 1
    /\ UNCHANGED <<appendVars, sumVars>>

AfterSummarizeRun(run, file) ==
    /\ disk' = run.disk
    /\ excel_cache' = run.excel_cache
    /\ csv_cache' = run.csv_cache
    /\ view' = run.view
    /\ sum_file' = IF run.view.upload_offered THEN file ELSE NoFile
    /\ use_combined_file' = "absent"
    /\ uploaded_files' = <<>>
    /\ output_filename' = DefaultOutput
    /\ runs' = runs + 1
    /\ UNCHANGED <<append_cache, session_state, last_answer, appendVars, sumVars>>

\* The user switches the operation radio (line 138).
SelectOperation ==
    /\ runs < MaxRuns
    /\ \E op \in {"Append Files", "Summarize Data"} \ {operation} :
          /\ operation' = op
          /\ IF op = "Append Files"
             THEN /\ AfterAppendRun(AppendPageRun(<<>>, FALSE))
                  /\ UNCHANGED <<uploaded_files, output_filename, last_answer>>
             ELSE AfterSummarizeRun(SummarizePageRun(NoFile), NoFile)

\* The user adds a file to the Append page's uploader (line 147).
AddUpload ==
    /\ runs < MaxRuns
    /\ operation = "Append Files"
    /\ Len(uploaded_files) < MaxUploads
    /\ \E f \in SessionUploads :
          /\ \A i \in 1..Len(uploaded_files) : uploaded_files[i].name # f.name
          /\ uploaded_files' = Append(uploaded_files, f)
          /\ AfterAppendRun(AppendPageRun(Append(uploaded_files, f), FALSE))
    /\ UNCHANGED <<operation, output_filename, last_answer>>

\* The user removes a file from the uploader.
RemoveUpload ==
    /\ runs < MaxRuns
    /\ operation = "Append Files"
    /\ \E i \in 1..Len(uploaded_files) :
          LET rest == SubSeq(uploaded_files, 1, i - 1)
                      \o SubSeq(uploaded_files, i + 1, Len(uploaded_files))
          IN /\ uploaded_files' = rest
             /\ AfterAppendRun(AppendPageRun(rest, FALSE))
    /\ UNCHANGED <<operation, output_filename, last_answer>>

\* The user picks a sheet in a workbook's selectbox (lines 162-166), which
\* is rendered for a workbook with more than one sheet.
PickSheet ==
    /\ runs < MaxRuns
    /\ operation = "Append Files"
    /\ view.exc = ""
    /\ \E i \in 1..Len(uploaded_files) :
          LET f == uploaded_files[i]
              path == join(temp_folder, f.name)
          IN /\ IsExcel(f.name)
             /\ path \in DOMAIN excel_cache
             /\ ~Failed(excel_cache[path])
             /\ Len(excel_cache[path].ret) > 1
             /\ \E k \in 1..Len(excel_cache[path].ret) :
                   LET picked == [uploaded_files EXCEPT ![i].pick = excel_cache[path].ret[k]]
                   IN /\ picked # uploaded_files
                      /\ uploaded_files' = picked
                      /\ AfterAppendRun(AppendPageRun(picked, FALSE))
    /\ UNCHANGED <<operation, output_filename, last_answer>>

\* The user edits the output file name (line 148).
EditOutputName ==
    /\ runs < MaxRuns
    /\ operation = "Append Files"
    /\ \E name \in {NoName, DefaultOutput} \ {output_filename} :
          /\ output_filename' = name
          /\ AfterAppendRun(AppendPageRun(uploaded_files, FALSE))
    /\ UNCHANGED <<operation, uploaded_files, last_answer>>

\* The user clicks "Append Files" (line 179); the button is rendered when
\* files are uploaded and the run got past the previews.
ClickAppend ==
    /\ runs < MaxRuns
    /\ operation = "Append Files"
    /\ uploaded_files # <<>>
    /\ view.exc = ""
    /\ LET run == AppendPageRun(uploaded_files, TRUE)
       IN /\ AfterAppendRun(run)
          /\ last_answer' = IF run.view.radio_shown THEN run.use_combined_file
                            ELSE last_answer
    /\ UNCHANGED <<operation, uploaded_files, output_filename>>

\* The user answers the radio shown after an append (lines 199-203).  The
\* rerun has the button False, so lines 180-212 do not run and the radio is
\* not rendered.
AnswerRadio ==
    /\ runs < MaxRuns
    /\ operation = "Append Files"
    /\ view.radio_shown
    /\ \E answer \in {"Yes", "No"} \ {use_combined_file} :
          /\ last_answer' = answer
          /\ AfterAppendRun(AppendPageRun(uploaded_files, FALSE))
    /\ UNCHANGED <<operation, uploaded_files, output_filename>>

\* The user sets or clears the Summarize page's uploader (line 223).
SumUpload ==
    /\ runs < MaxRuns
    /\ operation = "Summarize Data"
    /\ view.upload_offered
    /\ \E f \in (SessionUploads \cup {NoFile}) \ {sum_file} :
          AfterSummarizeRun(SummarizePageRun(f), f)
    /\ UNCHANGED operation

\* The user picks a sheet on the Summarize page (line 233).
SumPickSheet ==
    /\ runs < MaxRuns
    /\ operation = "Summarize Data"
    /\ view.upload_offered
    /\ sum_file # NoFile
    /\ LET path == join(temp_folder, sum_file.name)
       IN /\ IsExcel(sum_file.name)
          /\ path \in DOMAIN excel_cache
          /\ ~Failed(excel_cache[path])
          /\ Len(excel_cache[path].ret) > 1
          /\ \E k \in 1..Len(excel_cache[path].ret) :
                LET f == [sum_file EXCEPT !.pick = excel_cache[path].ret[k]]
                IN /\ f # sum_file
                   /\ AfterSummarizeRun(SummarizePageRun(f), f)
    /\ UNCHANGED operation

\* The user sets the sidebar options and clicks "Summarize Data" (line 254):
\* group and value columns are chosen among the table's columns, or left
\* empty.
ClickSummarize ==
    /\ runs < MaxRuns
    /\ operation = "Summarize Data"
    /\ view.options_shown
    /\ \E op \in Operations, all \in BOOLEAN,
          by \in {<<>>, <<view.df.cols[1]>>}, sel \in {<<>>, <<view.df.cols[2]>>} :
          LET run == SummarizePageRun(sum_file)
          IN AfterSummarizeRun(
                 [run EXCEPT !.view = SummarizeClick(@, op, sel, by, all)], sum_file)
    /\ UNCHANGED operation

Next ==
    \/ SelectOperation
    \/ AddUpload
    \/ RemoveUpload
    \/ PickSheet
    \/ EditOutputName
    \/ ClickAppend
    \/ AnswerRadio
    \/ SumUpload
    \/ SumPickSheet
    \/ ClickSummarize

Spec == Init /\ [][Next]_vars

(***************************************************************************)
(* What the claims about append_files speak of: the inputs that load, in   *)
(* their original order, stated from the files rather than from the loop.  *)
(***************************************************************************)
HasSheet(bytes, n) == \E k \in 1..Len(bytes.sheets) : bytes.sheets[k].name = n
Usable(i) ==
    LET p == file_paths[i]
        name == basename(p)
    IN IF IsExcel(name)
       THEN /\ name \in DOMAIN selected_sheets
            /\ disk[p].fmt = "xlsx"
            /\ HasSheet(disk[p], selected_sheets[name])
       ELSE disk[p].fmt = "csv"
TableOf(i) ==
    LET p == file_paths[i]
    IN IF IsExcel(basename(p))
       THEN LET k == CHOOSE k \in 1..Len(disk[p].sheets) :
                        disk[p].sheets[k].name = selected_sheets[basename(p)]
            IN disk[p].sheets[k].df
       ELSE disk[p].df
UsableIdx == {i \in 1..Len(file_paths) : Usable(i)}
Nth(S, k) == CHOOSE i \in S : Cardinality({j \in S : j <= i}) = k
UsableTables == [k \in 1..Cardinality(UsableIdx) |-> TableOf(Nth(UsableIdx, k))]
UsablePaths == [k \in 1..Cardinality(UsableIdx) |-> file_paths[Nth(UsableIdx, k)]]
SameColumnSets(dfs) == \A i \in 1..Len(dfs) : ColumnSet(dfs[i]) = ColumnSet(dfs[1])
RECURSIVE RowsBefore(_, _)
RowsBefore(dfs, i) ==
    IF i <= 1 THEN 0 ELSE RowsBefore(dfs, i - 1) + Len(dfs[i - 1].rows)
Has(msgs, m) == \E k \in 1..Len(msgs) : msgs[k] = m
\* The closing condition of an append: the no-data and mismatch messages.
Closing(msgs) == SelectSeq(msgs, LAMBDA m : m \in {ErrNoData, ErrMismatch})

\* C1: when every loaded table has the same column set, append_files
\* returns a table with exactly the sum of the input row counts, whose
\* rows are the inputs' rows in input order, each row keeping its value
\* under every column name.
C1_AppendKeepsRows ==
    (appendOut.called /\ UsableTables # <<>> /\ SameColumnSets(UsableTables)) =>
        LET U == UsableTables IN
        /\ appendOut.df # None
        /\ ColumnSet(appendOut.df) = ColumnSet(U[1])
        /\ Len(appendOut.df.rows) = RowsBefore(U, Len(U) + 1)
        /\ \A i \in 1..Len(U) : \A r \in 1..Len(U[i].rows) : \A c \in ColumnSet(U[i]) :
              Cell(appendOut.df, RowsBefore(U, i) + r, c) = Cell(U[i], r, c)

\* Two tables with the same column set in different orders, the first with
\* a repeated row, have been appended.
C1_Witness ==
    /\ appendOut.called
    /\ Len(UsableTables) = 2
    /\ SameColumnSets(UsableTables)
    /\ UsableTables[1].cols # UsableTables[2].cols
    /\ Len(UsableTables[1].rows) = 2
    /\ UsableTables[1].rows[1] = UsableTables[1].rows[2]
    /\ Len(UsableTables[2].rows) >= 1

\* C2: for a non-empty list of loaded tables append_files returns a table
\* exactly when every column set equals the first one (order ignored);
\* otherwise it returns None and reports the column mismatch.
\* validate_columns is false for the empty list.
C2_MergedIffSameColumnSets ==
    /\ validate_columns(<<>>) = FALSE
    /\ (appendOut.called /\ UsableTables # <<>>) =>
        /\ (appendOut.df # None) <=> SameColumnSets(UsableTables)
        /\ Has(appendOut.msgs, ErrMismatch) <=> ~SameColumnSets(UsableTables)

\* A merge of tables whose headers differ only in order has succeeded.
C2_Witness ==
    /\ appendOut.called
    /\ Len(UsableTables) = 2
    /\ UsableTables[1].cols # UsableTables[2].cols
    /\ ColumnSet(UsableTables[1]) = ColumnSet(UsableTables[2])
    /\ appendOut.df # None

\* C5: with no usable input table append_files ends with the no-data
\* condition and not with the column mismatch; the column mismatch is only
\* reported when at least one table was loaded.
C5_NoDataNotMismatch ==
    appendOut.called =>
        /\ UsableTables = <<>> =>
              /\ appendOut.df = None
              /\ Has(appendOut.msgs, ErrNoData)
              /\ ~Has(appendOut.msgs, ErrMismatch)
        /\ Has(appendOut.msgs, ErrMismatch) => UsableTables # <<>>

\* An append of two files, none of which loaded, has ended.
C5_Witness ==
    /\ appendOut.called
    /\ Len(file_paths) = 2
    /\ UsableTables = <<>>
    /\ Has(appendOut.msgs, ErrNoData)

\* C7: a file that fails to load (or a workbook without a selected sheet)
\* only removes that input: the result and closing condition of
\* append_files are those of appending just the inputs that load, in order.
C7_FailedLoadOnlyDropsInput ==
    appendOut.called =>
        LET only == append_files_body(EmptyMap, disk, UsablePaths, selected_sheets)
        IN /\ appendOut.df = only.df
           /\ Closing(appendOut.msgs) = Closing(only.msgs)

\* The first of two files failed to load and the second was still merged.
C7_Witness ==
    /\ appendOut.called
    /\ Len(file_paths) = 2
    /\ UsableIdx = {2}
    /\ appendOut.df = TableOf(2)

(***************************************************************************)
(* What the claims about summarize_csv_files speak of.                     *)
(***************************************************************************)
WellFormedCall ==
    /\ sumOut.called
    /\ sumOut.group_by_columns # <<>>
    /\ Missing(sum_df, sumOut.group_by_columns) = {}
    /\ Missing(sum_df, sumOut.selected_columns) = {}
\* Every value-combination of the group columns present in the table, the
\* ones holding nulls included.
Combinations(df, by) == {KeyOf(df, by, r) : r \in 1..Len(df.rows)}
FirstRowWith(df, by, key) ==
    CHOOSE r \in 1..Len(df.rows) :
        /\ KeyOf(df, by, r) = key
        /\ \A q \in 1..(r - 1) : KeyOf(df, by, q) # key

\* C3: for a non-empty list of group columns the summary has one row per
\* distinct value-combination of the group columns present in the table,
\* rows with nulls in the group columns forming groups like any other.
C3_OneRowPerCombination ==
    WellFormedCall =>
        Len(sumOut.ret.rows) = Cardinality(Combinations(sum_df, sumOut.group_by_columns))

\* C6: an empty group-column list is rejected with a condition of its own,
\* distinguishable from every other failure of the summarization.
C6_NoGroupingIsDistinct ==
    (sumOut.called /\ sumOut.group_by_columns = <<>>) =>
        /\ sumOut.err # <<>>
        /\ \A op \in Operations, sel \in ValueChoices, all \in BOOLEAN :
           \A by \in GroupChoices \ {<<>>} :
              LET other == summarize_csv_files(sum_df, op, sel, by, all)
              IN other.err # <<>> =>
                    <<other.ret, other.err>> # <<sumOut.ret, sumOut.err>>

\* C8: with include_all_columns every column that is neither grouped nor
\* aggregated shows, for each group, the value of the group's first row in
\* source order, a null included, next to the aggregates.
C8_FirstRowValue ==
    (WellFormedCall /\ sumOut.include_all_columns) =>
        LET by == sumOut.group_by_columns
            sel == sumOut.selected_columns
            rest == PassThrough(sum_df, sel, by)
        IN /\ \A j \in 1..Len(sel) : sel[j] \in ColumnSet(sumOut.ret)
           /\ \A o \in 1..Len(sumOut.ret.rows) : \A j \in 1..Len(rest) :
                 LET key == [k \in 1..Len(by) |-> Cell(sumOut.ret, o, by[k])]
                 IN Cell(sumOut.ret, o, rest[j])
                      = Cell(sum_df, FirstRowWith(sum_df, by, key), rest[j])

(***************************************************************************)
(* What the claims about the session speak of.                             *)
(***************************************************************************)
\* C4: caching changes no result: the table an append shows is the one
\* append_files computes from the bytes now at the paths, and the table the
\* Summarize page reads from a CSV upload is the one read_csv reads from
\* the bytes now at its path.
C4_CachingChangesNoResult ==
    /\ view.call # Unset =>
          view.combined
            = append_files_body(EmptyMap, disk, view.call.file_paths,
                                view.call.selected_sheets).df
    /\ (view.page = "Summarize Data" /\ view.df_bound /\ ~view.using_appended
          /\ ~IsExcel(sum_file.name)) =>
          view.df = read_csv_body(disk, join(temp_folder, sum_file.name)).ret

\* C9: the user's latest answer to the radio decides the carried table:
\* after "No" session_state["summarize_df"] is None and the Summarize page
\* offers an upload; after "Yes" the Summarize page uses the appended table.
C9_AnswerDecidesCarriedTable ==
    /\ last_answer = "No" =>
          /\ "summarize_df" \in DOMAIN session_state
          /\ session_state["summarize_df"] = None
    /\ (last_answer = "No" /\ view.page = "Summarize Data") =>
          view.upload_offered /\ ~view.using_appended
    /\ (last_answer = "Yes" /\ view.page = "Summarize Data") =>
          view.using_appended

\* C10: every run of the Summarize page has df bound when line 239 tests
\* it, and ends without an exception.
C10_DfBoundBeforeTest ==
    view.page = "Summarize Data" => (view.df_bound /\ view.exc # "NameError")

====
